---------------------------- MODULE Spec2Model ----------------------------
(***************************************************************************)
(* State-machine model of DrawView (src/draw_view.py): the world/window    *)
(* transform, the style attributes with their save/restore stack, the      *)
(* painting primitives and the event handlers; and of the file actions of  *)
(* BeamWindow (src/beam_app.py), the window that hosts the view.           *)
(*                                                                         *)
(* Numbers.  The program computes with Python floats / Qt qreal.  The      *)
(* model computes with exact rationals <<n, d>> (d > 0, lowest terms), so  *)
(* every statement about coordinates is a statement about the real-number  *)
(* semantics of the code, not about rounding.                              *)
(*                                                                         *)
(* Missing attributes.  A Python attribute that has not been assigned yet  *)
(* is the empty tuple <<>> (transform, scale, current_mouse_pos) or the    *)
(* string "unset" (the colour behind the text_color property).  Reading it *)
(* raises AttributeError.                                                  *)
(*                                                                         *)
(* Exceptions.  err is the exception raised by the last call ("none" when  *)
(* it returned normally).  A call that raises keeps the assignments made   *)
(* before the raising line, exactly as the Python code does.               *)
(***************************************************************************)
EXTENDS Integers, Sequences, FiniteSets, TLC

VARIABLES
    vw,                \* self.width()  of the widget (device units)
    vh,                \* self.height() of the widget (device units)
    world_bounds,      \* self.world_bounds: [x, y, w, h]
    transform,         \* self.transform: <<m11, m22, dx, dy>>, or <<>> when unset
    scale,             \* self.scale: a rational, or <<>> when unset
    style,             \* the style attributes, pens and brushes of the widget
    attribute_stack,   \* self.__attribute_stack
    current_mouse_pos, \* self.current_mouse_pos, or <<>> when unset
    update_pending,    \* self.update() was called and no repaint has run since
    pc,                \* "idle", or "painting" while paintEvent runs on_draw
    canvas,            \* what the repaint in progress has drawn: one entry
                       \* [by, calls] per drawing method that ran; <<>> when idle
    last,              \* history: the last call, [op, arg, ret, src]
    err,               \* the exception the last call raised, "none" otherwise
    shadow,            \* history: the style read at each push_attributes call that
                       \* has not been matched by a pop_attributes call yet
    resized,           \* history: a resize event was delivered since construction
    hooked,            \* history: the on_mouse_* calls made by the last pointer
                       \* event handler, each with the position stored at the call
    filename,          \* BeamWindow: self.filename
    window_calls,      \* BeamWindow: the calls the last menu action made on the
                       \* beam model, the beam view and the controls, in order
    saved,             \* the files written by save_as_json so far
    dialog,            \* the file name the file dialog of the last menu action
                       \* returned ("" when cancelled), NoDialog if none was shown
    chosen             \* history: the file name last accepted in a file dialog,
                       \* "" when none was

geomVars == <<vw, vh, world_bounds, transform, scale, resized>>
styleVars == <<style, attribute_stack, shadow>>
mouseVars == <<current_mouse_pos, hooked>>
windowVars == <<filename, window_calls, saved, dialog, chosen>>
vars == <<vw, vh, world_bounds, transform, scale, style, attribute_stack,
          current_mouse_pos, update_pending, pc, canvas, last, err, shadow,
          resized, hooked, filename, window_calls,
          saved, dialog, chosen>>

-----------------------------------------------------------------------------
(* Bounds of the model *)

MaxView == 2
MaxWorld == 2
MaxCoord == 1
MaxPrims == 1
MaxStack == 2

ViewSizes == 0..MaxView
WorldOrigins == {0 - 1}
WorldSizes == 0..MaxWorld
Coords == (0 - MaxCoord)..MaxCoord

-----------------------------------------------------------------------------
(* Exact rational arithmetic, standing for the float arithmetic of the code *)

Abs(n) == IF n < 0 THEN 0 - n ELSE n

RECURSIVE GCD(_, _)
GCD(a, b) == IF b = 0 THEN a ELSE GCD(b, a % b)

Rat(n, d) ==
    LET s == IF d < 0 THEN 0 - 1 ELSE 1
        g == GCD(Abs(n), Abs(d))
    IN  <<(s * n) \div g, (s * d) \div g>>

R(n) == <<n, 1>>
RAdd(a, b) == Rat(a[1] * b[2] + b[1] * a[2], a[2] * b[2])
RSub(a, b) == Rat(a[1] * b[2] - b[1] * a[2], a[2] * b[2])
RMul(a, b) == Rat(a[1] * b[1], a[2] * b[2])
RDiv(a, b) == Rat(a[1] * b[2], a[2] * b[1])
RNeg(a) == <<0 - a[1], a[2]>>
RLt(a, b) == a[1] * b[2] < b[1] * a[2]
RLe(a, b) == a[1] * b[2] <= b[1] * a[2]
RAbs(a) == <<Abs(a[1]), a[2]>>
RHalf(a) == Rat(a[1], 2 * a[2])

\* faulty variant of min: the larger of the two
min_as_max(a, b) == IF RLt(b, a) THEN a ELSE b

\* Python's min(a, b): b when b < a, else a
min(a, b) == IF RLt(b, a) THEN b ELSE a

RPoint(x, y) == <<R(x), R(y)>>

-----------------------------------------------------------------------------
(* QTransform, restricted to the operations the code uses (no rotation or  *)
(* shear is ever applied, so m12 = m21 = 0 throughout).                    *)

QTransform == <<R(1), R(1), R(0), R(0)>>

\* QTransform.translate(tx, ty): dx += tx*m11, dy += ty*m22
translate(t, tx, ty) ==
    <<t[1], t[2], RAdd(t[3], RMul(tx, t[1])), RAdd(t[4], RMul(ty, t[2]))>>

\* faulty variant of scaleBy: the vertical factor loses its sign (no Y flip)
scaleBy_noflip(t, sx, sy) == <<RMul(t[1], sx), RMul(t[2], RAbs(sy)), t[3], t[4]>>

\* QTransform.scale(sx, sy): m11 *= sx, m22 *= sy
scaleBy(t, sx, sy) == <<RMul(t[1], sx), RMul(t[2], sy), t[3], t[4]>>

\* QTransform.map(QPointF(x, y)) = (m11*x + dx, m22*y + dy)
map(t, p) == <<RAdd(RMul(t[1], p[1]), t[3]), RAdd(RMul(t[2], p[2]), t[4])>>

\* faulty variant of inverted: the translation is negated but not rescaled
inverted_unscaled(t) ==
    IF t[1][1] = 0 \/ t[2][1] = 0 THEN QTransform
    ELSE <<RDiv(R(1), t[1]), RDiv(R(1), t[2]), RNeg(t[3]), RNeg(t[4])>>

\* QTransform.inverted()[0]: the inverse matrix, or the identity when the
\* matrix is singular (the "invertible" flag is dropped by the [0])
inverted(t) ==
    IF t[1][1] = 0 \/ t[2][1] = 0 THEN QTransform
    ELSE LET i11 == RDiv(R(1), t[1])
             i22 == RDiv(R(1), t[2])
         IN  <<i11, i22, RMul(RNeg(t[3]), i11), RMul(RNeg(t[4]), i22)>>

\* faulty variant of center: the top-left corner instead of the centre
center_as_corner(wb) == <<R(wb.x), R(wb.y)>>

\* QRectF.center()
center(wb) == <<RAdd(R(wb.x), RHalf(R(wb.w))), RAdd(R(wb.y), RHalf(R(wb.h)))>>


-----------------------------------------------------------------------------
(* Pens and brushes.  A QPen is [style, color, width], a QBrush is         *)
(* [style, color].                                                         *)

\* QPen(Qt.NoPen) and QBrush(Qt.NoBrush), built in __init__
no_stroke_pen == [style |-> "NoPen", color |-> "black", width |-> R(1)]
no_fill_brush == [style |-> "NoBrush", color |-> "black"]

\* the pen and the brush of a QPainter(self) on which setPen / setBrush
\* were never called
DefaultPen == [style |-> "SolidLine", color |-> "black", width |-> R(1)]
DefaultBrush == [style |-> "NoBrush", color |-> "black"]

\* QPen.setWidth(int): the width is an int, a fractional width is truncated
setWidth(pen, width) == [pen EXCEPT !.width = R(width[1] \div width[2])]

\* the QPen object self.current_pen refers to
current_pen(s) ==
    IF s.current_pen = "stroke_pen" THEN s.stroke_pen ELSE no_stroke_pen

\* the QBrush object self.current_brush refers to
current_brush(s) ==
    IF s.current_brush = "fill_brush" THEN s.fill_brush ELSE no_fill_brush

-----------------------------------------------------------------------------
(* __update_transform *)

Ok == "none"

\* faulty variant of update_transform: the early return on an empty viewport
\* is missing
update_transform_unguarded(w, h, wb, tr, sc) ==
    IF wb.w = 0 \/ wb.h = 0
    THEN [transform |-> QTransform, scale |-> sc, err |-> "ZeroDivisionError"]
    ELSE LET scale_x == RDiv(R(w), R(wb.w))
             scale_y == RDiv(R(h), R(wb.h))
             s == min(scale_x, scale_y)
             c == center(wb)
             t1 == translate(QTransform, RHalf(R(w)), RHalf(R(h)))
             t2 == scaleBy(t1, s, RNeg(s))
             t3 == translate(t2, RNeg(c[1]), RNeg(c[2]))
         IN  [transform |-> t3, scale |-> s, err |-> Ok]

update_transform(w, h, wb, tr, sc) ==
    IF w = 0 \/ h = 0
    THEN [transform |-> tr, scale |-> sc, err |-> Ok]
    ELSE IF wb.w = 0 \/ wb.h = 0
    THEN \* self.transform = QTransform() is assigned before the division raises
         [transform |-> QTransform, scale |-> sc, err |-> "ZeroDivisionError"]
    ELSE LET scale_x == RDiv(R(w), R(wb.w))
             scale_y == RDiv(R(h), R(wb.h))
             s == min(scale_x, scale_y)
             tx == RHalf(R(w))
             ty == RHalf(R(h))
             c == center(wb)
             t1 == translate(QTransform, tx, ty)
             t2 == scaleBy(t1, s, RNeg(s))
             t3 == translate(t2, RNeg(c[1]), RNeg(c[2]))
         IN  [transform |-> t3, scale |-> s, err |-> Ok]

-----------------------------------------------------------------------------
(* __init__ *)

InitWorldBounds == [x |-> 0 - 10, y |-> 0 - 10, w |-> 20, h |-> 20]

InitStyle ==
    [stroke_color |-> "black",
     fill_color |-> "white",
     stroke_width |-> R(1),
     text_color |-> "black",     \* self.__text_color, written by __init__ only
     font_color |-> "unset",     \* self.__font_color, behind the text_color property
     stroke |-> TRUE,
     fill |-> TRUE,
     stroke_pen |-> [style |-> "SolidLine", color |-> "black", width |-> R(1)],
     fill_brush |-> [style |-> "SolidPattern", color |-> "white"],
     text_pen |-> [style |-> "SolidLine", color |-> "black", width |-> R(1)],
     current_pen |-> "stroke_pen",
     current_brush |-> "fill_brush"]

Call(op, arg, ret, src) == [op |-> op, arg |-> arg, ret |-> ret, src |-> src]

\* no file dialog was shown
NoDialog == "no dialog"

Init ==
    /\ vw \in ViewSizes
    /\ vh \in ViewSizes
    /\ world_bounds = InitWorldBounds
    /\ LET u == update_transform(vw, vh, InitWorldBounds, <<>>, <<>>)
       IN  /\ transform = u.transform
           /\ scale = u.scale
    /\ style = InitStyle
    /\ attribute_stack = <<>>
    /\ current_mouse_pos = <<>>
    /\ update_pending = FALSE
    /\ pc = "idle"
    /\ canvas = <<>>
    /\ last = Call("__init__", <<>>, <<>>, <<>>)
    /\ err = Ok
    /\ shadow = <<>>
    /\ resized = FALSE
    /\ hooked = <<>>
    /\ filename = ""
    /\ window_calls = <<>>
    /\ saved = {}
    /\ dialog = NoDialog
    /\ chosen = ""

-----------------------------------------------------------------------------
(* Geometry: resizeEvent, set_world_bounds, world_to_window, window_to_world *)

\* faulty variant of resizeEvent: the transform is not recomputed
resizeEvent_stale(w, h) ==
    /\ pc = "idle"
    /\ vw' = w
    /\ vh' = h
    /\ err' = Ok
    /\ update_pending' = TRUE
    /\ last' = Call("resizeEvent", <<w, h>>, <<>>, <<>>)
    /\ resized' = TRUE
    /\ UNCHANGED <<world_bounds, transform, scale, style, attribute_stack,
                   mouseVars, windowVars, pc, canvas, shadow>>

\* the host resizes the widget to w x h and delivers the resize event
resizeEvent(w, h) ==
    /\ pc = "idle"
    /\ vw' = w
    /\ vh' = h
    /\ LET u == update_transform(w, h, world_bounds, transform, scale)
       IN  /\ transform' = u.transform
           /\ scale' = u.scale
           /\ err' = u.err
           /\ update_pending' = IF u.err = Ok THEN TRUE ELSE update_pending
    /\ last' = Call("resizeEvent", <<w, h>>, <<>>, <<>>)
    /\ resized' = TRUE
    /\ UNCHANGED <<world_bounds, style, attribute_stack, mouseVars, windowVars,
                   pc, canvas, shadow>>

\* faulty variant of set_world_bounds: self.update() is not called
set_world_bounds_quiet(xmin, ymin, width, height) ==
    /\ world_bounds' = [x |-> xmin, y |-> ymin, w |-> width, h |-> height]
    /\ LET u == update_transform(vw, vh, world_bounds', transform, scale)
       IN  /\ transform' = u.transform
           /\ scale' = u.scale
           /\ err' = u.err
    /\ last' = Call("set_world_bounds", <<xmin, ymin, width, height>>, <<>>, <<>>)
    /\ UNCHANGED <<vw, vh, style, attribute_stack, mouseVars, windowVars, update_pending,
                   pc, canvas, shadow, resized>>

set_world_bounds(xmin, ymin, width, height) ==
    /\ world_bounds' = [x |-> xmin, y |-> ymin, w |-> width, h |-> height]
    /\ LET u == update_transform(vw, vh, world_bounds', transform, scale)
       IN  /\ transform' = u.transform
           /\ scale' = u.scale
           /\ err' = u.err
           /\ update_pending' = IF u.err = Ok THEN TRUE ELSE update_pending
    /\ last' = Call("set_world_bounds", <<xmin, ymin, width, height>>, <<>>, <<>>)
    /\ UNCHANGED <<vw, vh, style, attribute_stack, mouseVars, windowVars,
                   pc, canvas, shadow, resized>>

\* the value world_to_window returns: self.transform.map(QPointF(x, y))
world_to_window_value(t, p) == map(t, p)

\* the value window_to_world returns: self.transform.inverted()[0].map(QPointF(x, y))
window_to_world_value(t, p) == map(inverted(t), p)

\* world_to_window(x, y); src is the device point whose window_to_world
\* result is passed in, <<>> for a direct call
world_to_window(p, src) ==
    /\ IF transform = <<>>
       THEN /\ err' = "AttributeError"
            /\ last' = Call("world_to_window", p, <<>>, src)
       ELSE /\ err' = Ok
            /\ last' = Call("world_to_window", p, world_to_window_value(transform, p), src)
    /\ UNCHANGED <<geomVars, styleVars, mouseVars, windowVars, update_pending, pc, canvas>>

window_to_world(p, src) ==
    /\ IF transform = <<>>
       THEN /\ err' = "AttributeError"
            /\ last' = Call("window_to_world", p, <<>>, src)
       ELSE /\ err' = Ok
            /\ last' = Call("window_to_world", p, window_to_world_value(transform, p), src)
    /\ UNCHANGED <<geomVars, styleVars, mouseVars, windowVars, update_pending, pc, canvas>>


-----------------------------------------------------------------------------
(* Painting.  paintEvent clears the surface and runs on_draw; on_draw is   *)
(* the hook of the subclass, a sequence of calls of the methods below.     *)

\* one QPainter call: what is drawn, with the pen and brush of the painter
Draw(op, pen, brush, pts) == [op |-> op, pen |-> pen, brush |-> brush, pts |-> pts]

\* the painter calls made by one drawing method
Drawn(by, calls) == [by |-> by, calls |-> calls]

\* faulty variant of paintEvent: on_draw is called before the surface is cleared
paintEvent_unclear ==
    /\ pc = "idle"
    /\ pc' = "painting"
    /\ canvas' = <<>>
    /\ update_pending' = FALSE
    /\ last' = Call("paintEvent", <<>>, <<>>, <<>>)
    /\ err' = Ok
    /\ UNCHANGED <<geomVars, styleVars, mouseVars, windowVars>>

\* paintEvent up to the call of on_draw: painter set up, surface cleared.
\* fillRect(0, 0, width, height, Qt.white) fills with the colour it is given:
\* the brush recorded for it is that colour, the pen is the painter's.
paintEvent ==
    /\ pc = "idle"
    /\ pc' = "painting"
    /\ canvas' = <<Drawn("paintEvent",
                         <<Draw("fillRect", current_pen(style),
                                [style |-> "SolidPattern", color |-> "white"],
                                <<RPoint(0, 0), RPoint(vw, vh)>>)>>)>>
    /\ update_pending' = FALSE
    /\ last' = Call("paintEvent", <<>>, <<>>, <<>>)
    /\ err' = Ok
    /\ UNCHANGED <<geomVars, styleVars, mouseVars, windowVars>>

\* on_draw returns and paintEvent with it
on_draw_return ==
    /\ pc = "painting"
    /\ pc' = "idle"
    /\ canvas' = <<>>
    /\ last' = Call("on_draw", <<>>, <<>>, <<>>)
    /\ err' = Ok
    /\ UNCHANGED <<geomVars, styleVars, mouseVars, windowVars, update_pending>>

\* a drawing method that made the painter calls `calls`, or raised
Paint(by, arg, calls) ==
    /\ pc = "painting"
    /\ Len(canvas) <= MaxPrims
    /\ IF transform = <<>>
       THEN /\ err' = "AttributeError"
            /\ canvas' = canvas
       ELSE /\ err' = Ok
            /\ canvas' = Append(canvas, Drawn(by, calls))
    /\ last' = Call(by, arg, <<>>, <<>>)
    /\ UNCHANGED <<geomVars, styleVars, mouseVars, windowVars, update_pending, pc>>

\* painter(): a QPainter with the current pen and the current brush
painter(s) == [pen |-> current_pen(s), brush |-> current_brush(s)]

line(x1, y1, x2, y2) ==
    LET pt == painter(style)
        p1 == map(transform, RPoint(x1, y1))
        p2 == map(transform, RPoint(x2, y2))
    IN  Paint("line", <<x1, y1, x2, y2>>,
              <<Draw("drawLine", pt.pen, pt.brush, <<p1, p2>>)>>)

-----------------------------------------------------------------------------
(* SpecGeom: the widget is resized, also to empty sizes, its world bounds  *)
(* are set, also to empty ones, and it is repainted.                       *)

NextGeom ==
    \/ \E w \in ViewSizes, h \in ViewSizes : resizeEvent(w, h)
    \/ /\ pc = "idle"
       /\ \E x \in WorldOrigins, y \in WorldOrigins, w \in WorldSizes, h \in WorldSizes :
             set_world_bounds(x, y, w, h)
    \/ paintEvent
    \/ line(0 - 1, 0, 1, 1)
    \/ on_draw_return

SpecGeom == Init /\ [][NextGeom]_vars

-----------------------------------------------------------------------------
(* SpecRepaint: resizes, also to empty sizes, and changes of world bounds  *)
(* to non-empty rectangles, with the repaints the host delivers.  The host *)
(* delivers a paint event for every self.update() (several calls may share *)
(* one event), and on_draw returns.                                        *)

NextRepaint ==
    \/ \E w \in ViewSizes, h \in ViewSizes : resizeEvent(w, h)
    \/ /\ pc = "idle"
       /\ \E x \in WorldOrigins, y \in WorldOrigins :
          \E w \in WorldSizes \ {0}, h \in WorldSizes \ {0} :
             set_world_bounds(x, y, w, h)
    \/ paintEvent
    \/ on_draw_return

SpecRepaint ==
    /\ Init
    /\ [][NextRepaint]_vars
    /\ WF_vars(update_pending /\ paintEvent)
    /\ WF_vars(on_draw_return)

-----------------------------------------------------------------------------
(* SpecMap: the coordinate mapping is called, directly and on the result   *)
(* of the opposite mapping, between resizes and changes of world bounds.   *)

Points == {RPoint(x, y) : x \in Coords, y \in Coords}
DevicePoints == {RPoint(x, y) : x \in ViewSizes, y \in ViewSizes}

NextMap ==
    \/ \E w \in ViewSizes \ {0}, h \in ViewSizes \ {0} : resizeEvent(w, h)
    \/ \E x \in WorldOrigins, y \in WorldOrigins :
       \E w \in WorldSizes \ {0}, h \in WorldSizes \ {0} :
          set_world_bounds(x, y, w, h)
    \/ \E p \in Points : world_to_window(p, <<>>)
    \/ \E d \in DevicePoints : window_to_world(d, <<>>)
    \/ /\ last.op = "world_to_window" /\ last.src = <<>> /\ err = Ok
       /\ window_to_world(last.ret, last.arg)
    \/ /\ last.op = "window_to_world" /\ last.src = <<>> /\ err = Ok
       /\ world_to_window(last.ret, last.arg)

SpecMap == Init /\ [][NextMap]_vars


-----------------------------------------------------------------------------
(* The statements about the transform.  They are written with the          *)
(* formulas of the specification, not with the operators of the model.     *)

\* the viewport and the world bounds are both non-empty
Positive == vw > 0 /\ vh > 0 /\ world_bounds.w > 0 /\ world_bounds.h > 0

RatioX == RDiv(R(vw), R(world_bounds.w))
RatioY == RDiv(R(vh), R(world_bounds.h))

\* centre of the world rectangle: (xmin + width/2, ymin + height/2)
WorldCenterX == Rat(2 * world_bounds.x + world_bounds.w, 2)
WorldCenterY == Rat(2 * world_bounds.y + world_bounds.h, 2)

\* min(viewport.width / world.width, viewport.height / world.height)
MinRatio == IF RLe(RatioX, RatioY) THEN RatioX ELSE RatioY

\* (viewport.width/2 + s*(x - worldCenterX), viewport.height/2 - s*(y - worldCenterY))
ToDevice(s, p) ==
    <<RAdd(Rat(vw, 2), RMul(s, RSub(p[1], WorldCenterX))),
      RSub(Rat(vh, 2), RMul(s, RSub(p[2], WorldCenterY)))>>

\* C5. Scale invariant: whenever the viewport and the world bounds are
\* non-empty, scale is the smaller of viewport.width / world.width and
\* viewport.height / world.height for the current viewport and world bounds,
\* and the transform scales both axes by that magnitude.
C5_ScaleIsMinRatio ==
    Positive =>
        /\ scale # <<>>
        /\ scale = RatioX \/ scale = RatioY
        /\ RLe(scale, RatioX) /\ RLe(scale, RatioY)
        /\ RAbs(transform[1]) = scale /\ RAbs(transform[2]) = scale

\* reached: after set_world_bounds and a resize, the height ratio is strictly
\* the smaller one and decides the scale
C5_Witness ==
    /\ Positive
    /\ last.op = "resizeEvent"
    /\ world_bounds # InitWorldBounds
    /\ RLt(RatioY, RatioX)
    /\ scale = RatioY

\* C6. Degenerate viewport: a resize or a set_world_bounds that finds the
\* viewport width or height zero leaves transform and scale exactly as they
\* were and raises nothing.
C6_DegenerateViewportNoOp ==
    [][ (/\ last'.op \in {"resizeEvent", "set_world_bounds"}
         /\ (vw' = 0 \/ vh' = 0))
        => (transform' = transform /\ scale' = scale /\ err' = Ok) ]_vars

\* reached: set_world_bounds to an empty world rectangle while the viewport is
\* empty, with a transform computed earlier still in place
C6_Witness ==
    /\ last.op = "set_world_bounds"
    /\ vw = 0 \/ vh = 0
    /\ world_bounds.w = 0
    /\ transform # <<>>
    /\ transform # QTransform
    /\ err = Ok

\* C7. world_to_window(x, y) = (viewport.width/2 + scale*(x - worldCenterX),
\* viewport.height/2 - scale*(y - worldCenterY)); a larger world y gives a
\* smaller device y, a larger world x gives a larger device x.
C7_WorldToWindowFormula ==
    (last.op = "world_to_window" /\ err = Ok /\ Positive) =>
        /\ last.ret = ToDevice(scale, last.arg)
        /\ \A q \in Points :
              LET d == world_to_window_value(transform, q)
              IN  /\ RLt(last.arg[2], q[2]) => RLt(d[2], last.ret[2])
                  /\ RLt(last.arg[1], q[1]) => RLt(last.ret[1], d[1])

\* reached: world_to_window returned a point for non-default world bounds
\* with a scale other than 1
C7_Witness ==
    /\ last.op = "world_to_window" /\ err = Ok /\ Positive
    /\ world_bounds # InitWorldBounds
    /\ scale # R(1)
    /\ last.ret # last.arg

\* C8. Round trip: window_to_world(world_to_window(p)) = p and
\* world_to_window(window_to_world(d)) = d for non-empty viewport and world
\* bounds.
C8_RoundTrip ==
    (/\ last.op \in {"window_to_world", "world_to_window"}
     /\ last.src # <<>>
     /\ Positive) =>
        (err = Ok /\ last.ret = last.src)

\* reached: window_to_world was applied to the result of world_to_window(p),
\* a device point different from p, under a scale other than 1
C8_Witness ==
    /\ last.op = "window_to_world" /\ last.src # <<>> /\ err = Ok /\ Positive
    /\ last.arg # last.src
    /\ scale # R(1)
    /\ world_bounds # InitWorldBounds

\* the corners of the world-bounds rectangle
WorldCorners ==
    {<<R(world_bounds.x + i * world_bounds.w), R(world_bounds.y + j * world_bounds.h)>> :
        i \in {0, 1}, j \in {0, 1}}

InViewport(d) ==
    /\ RLe(R(0), d[1]) /\ RLe(d[1], R(vw))
    /\ RLe(R(0), d[2]) /\ RLe(d[2], R(vh))

\* C9. Scale-to-fit: for non-empty viewport and world bounds the corners of
\* the world rectangle (hence, the map being affine, all its points) map into
\* [0, viewport.width] x [0, viewport.height], and its centre maps to
\* (viewport.width/2, viewport.height/2).
C9_WorldFitsViewport ==
    Positive =>
        /\ transform # <<>>
        /\ \A c \in WorldCorners : InViewport(world_to_window_value(transform, c))
        /\ world_to_window_value(transform, <<WorldCenterX, WorldCenterY>>)
              = <<Rat(vw, 2), Rat(vh, 2)>>

\* reached: world bounds set to a rectangle whose aspect differs from the
\* viewport's, so that its image leaves a margin on one axis only
C9_Witness ==
    /\ Positive
    /\ last.op = "set_world_bounds"
    /\ resized
    /\ RLt(RatioX, RatioY)
    /\ \E c \in WorldCorners :
          LET d == world_to_window_value(transform, c)
          IN  d[1] = R(0) /\ RLt(R(0), d[2])

\* C10. Resize, then repaint: while a repaint runs with a non-empty viewport
\* and non-empty world bounds, the transform is the one computed from the
\* current viewport size and the current world bounds, and a line drawn by
\* on_draw is drawn at the device points that transform gives.
C10_RepaintSeesCurrentTransform ==
    (pc = "painting" /\ Positive) =>
        /\ transform # <<>>
        /\ \A p \in Points :
              world_to_window_value(transform, p) = ToDevice(MinRatio, p)
        /\ (last.op = "line" /\ err = Ok) =>
              canvas[Len(canvas)].calls[1].pts =
                 <<ToDevice(MinRatio, RPoint(last.arg[1], last.arg[2])),
                   ToDevice(MinRatio, RPoint(last.arg[3], last.arg[4]))>>

\* reached: a line drawn in a repaint that follows a resize to a non-square
\* viewport
C10_Witness ==
    /\ pc = "painting" /\ Positive
    /\ resized
    /\ last.op = "line" /\ err = Ok
    /\ vw # vh
    /\ Len(canvas) = 2


-----------------------------------------------------------------------------
(* The style properties.  Each setter is a function on the style record;   *)
(* the getters return the field, except text_color, which reads            *)
(* self.__font_color and raises AttributeError while that is unset.        *)

stroke_color_setter(s, color) ==
    [s EXCEPT !.stroke_color = color, !.stroke_pen.color = color]

\* faulty variant of fill_color_setter: the colour is stored in the stroke
\* colour field
fill_color_setter_slip(s, color) ==
    [s EXCEPT !.stroke_color = color, !.fill_brush.color = color]

fill_color_setter(s, color) ==
    [s EXCEPT !.fill_color = color, !.fill_brush.color = color]

fill_setter(s, fill) ==
    [s EXCEPT !.current_brush = IF fill THEN "fill_brush" ELSE "no_fill_brush",
              !.fill = fill]

stroke_setter(s, stroke) ==
    [s EXCEPT !.current_pen = IF stroke THEN "stroke_pen" ELSE "no_stroke_pen",
              !.stroke = stroke]

stroke_width_setter(s, width) ==
    [s EXCEPT !.stroke_width = width, !.stroke_pen = setWidth(s.stroke_pen, width)]

text_color_setter(s, color) ==
    [s EXCEPT !.font_color = color, !.text_pen.color = color]

\* the tuple push_attributes builds from the six getters
attributes(s) ==
    <<s.stroke_color, s.fill_color, s.stroke_width, s.font_color, s.stroke, s.fill>>

\* a call of a style setter
SetStyle(op, value, s) ==
    /\ style' = s
    /\ last' = Call(op, <<value>>, <<>>, <<>>)
    /\ err' = Ok
    /\ UNCHANGED <<geomVars, attribute_stack, shadow, mouseVars, windowVars,
                   update_pending, pc, canvas>>

set_stroke_color(color) == SetStyle("stroke_color", color, stroke_color_setter(style, color))
set_fill_color(color) == SetStyle("fill_color", color, fill_color_setter(style, color))
set_stroke_width(width) == SetStyle("stroke_width", width, stroke_width_setter(style, width))
set_text_color(color) == SetStyle("text_color", color, text_color_setter(style, color))
set_stroke(stroke) == SetStyle("stroke", stroke, stroke_setter(style, stroke))
set_fill(fill) == SetStyle("fill", fill, fill_setter(style, fill))

-----------------------------------------------------------------------------
(* push_attributes and pop_attributes.  shadow is the history the          *)
(* statements about save/restore are written against: push_attributes      *)
(* appends what the call found (the six fields and the depth of the        *)
(* stack), pop_attributes on a non-empty stack removes the last entry.     *)

Found(s, stack) == [state |-> attributes(s), depth |-> Len(stack)]

push_attributes ==
    /\ Len(shadow) < MaxStack
    /\ IF style.font_color = "unset"
       THEN \* self.text_color raises while the tuple is built: nothing is appended
            /\ err' = "AttributeError"
            /\ attribute_stack' = attribute_stack
       ELSE /\ err' = Ok
            /\ attribute_stack' = Append(attribute_stack, attributes(style))
    /\ shadow' = Append(shadow, Found(style, attribute_stack))
    /\ last' = Call("push_attributes", <<>>, <<>>, <<>>)
    /\ UNCHANGED <<geomVars, style, mouseVars, windowVars, update_pending, pc, canvas>>

\* the style after the tuple assignment and the six statements that follow it
restored(s, t) ==
    LET s1 == stroke_color_setter(s, t[1])
        s2 == fill_color_setter(s1, t[2])
        s3 == stroke_width_setter(s2, t[3])
        s4 == text_color_setter(s3, t[4])
        s5 == stroke_setter(s4, t[5])
        s6 == fill_setter(s5, t[6])
    IN  [s6 EXCEPT
            !.stroke_pen = setWidth([s6.stroke_pen EXCEPT !.color = s6.stroke_color],
                                    s6.stroke_width),
            !.fill_brush.color = s6.fill_color,
            !.text_pen.color = s6.font_color,
            !.current_pen = IF s6.stroke THEN "stroke_pen" ELSE "no_stroke_pen",
            !.current_brush = IF s6.fill THEN "fill_brush" ELSE "no_fill_brush"]

\* faulty variant of pop_attributes: the test for an empty stack is missing
pop_attributes_unguarded ==
    /\ IF attribute_stack # <<>>
       THEN /\ style' = restored(style, attribute_stack[Len(attribute_stack)])
            /\ attribute_stack' = SubSeq(attribute_stack, 1, Len(attribute_stack) - 1)
            /\ shadow' = SubSeq(shadow, 1, Len(shadow) - 1)
            /\ err' = Ok
       ELSE /\ err' = "IndexError"
            /\ UNCHANGED <<style, attribute_stack, shadow>>
    /\ last' = Call("pop_attributes", <<>>, <<>>, <<>>)
    /\ UNCHANGED <<geomVars, mouseVars, windowVars, update_pending, pc, canvas>>

pop_attributes ==
    /\ IF attribute_stack # <<>>
       THEN /\ style' = restored(style, attribute_stack[Len(attribute_stack)])
            /\ attribute_stack' = SubSeq(attribute_stack, 1, Len(attribute_stack) - 1)
            /\ shadow' = SubSeq(shadow, 1, Len(shadow) - 1)
       ELSE UNCHANGED <<style, attribute_stack, shadow>>
    /\ err' = Ok
    /\ last' = Call("pop_attributes", <<>>, <<>>, <<>>)
    /\ UNCHANGED <<geomVars, mouseVars, windowVars, update_pending, pc, canvas>>

-----------------------------------------------------------------------------
(* SpecStyle: the style setters and the attribute stack, on a widget       *)
(* constructed with a non-empty size.  Each colour and the width are set   *)
(* to one value other than the default and the flags are switched off; a  *)
(* restore brings the defaults back.                                       *)

NextStyle ==
    \/ set_stroke_color("red")
    \/ set_fill_color("red")
    \/ set_stroke_width(Rat(5, 2))
    \/ \E c \in {"black", "red"} : set_text_color(c)
    \/ set_stroke(FALSE)
    \/ set_fill(FALSE)
    \/ push_attributes
    \/ pop_attributes

InitSized == Init /\ vw = MaxView /\ vh = MaxView

SpecStyle == InitSized /\ [][NextStyle]_vars


-----------------------------------------------------------------------------
(* The drawing methods.  Each runs inside on_draw, maps its world          *)
(* coordinates with self.transform and issues QPainter calls.              *)

\* the square root of a float that is the square of a fraction (the arrows
\* drawn below are axis-parallel, so that their length is one)
ISqrt(n) == CHOOSE k \in 0..n : k * k = n
RSqrt(a) == <<ISqrt(a[1]), ISqrt(a[2])>>

polygon(points) ==
    LET pt == painter(style)
        mapped_points == [i \in 1..Len(points) |->
                             map(transform, RPoint(points[i][1], points[i][2]))]
    IN  Paint("polygon", points,
              <<Draw("drawPolygon", pt.pen, pt.brush, mapped_points)>>)

\* faulty variant of arrow_calls: the strokes of the start head point away
\* from the shaft
arrow_calls_outward(t, sc, x1, y1, x2, y2, arrow_size, arrow_start, arrow_end) ==
    LET pen == DefaultPen
        brush == DefaultBrush
        p1 == map(t, RPoint(x1, y1))
        p2 == map(t, RPoint(x2, y2))
        dx0 == RSub(p2[1], p1[1])
        dy0 == RSub(p2[2], p1[2])
        length == RSqrt(RAdd(RMul(dx0, dx0), RMul(dy0, dy0)))
        shaft == <<Draw("drawLine", pen, brush, <<p1, p2>>)>>
    IN  IF length = R(0) THEN shaft
        ELSE LET dx == RDiv(dx0, length)
                 dy == RDiv(dy0, length)
                 s == RMul(R(arrow_size), RAbs(sc))
                 p3 == <<RAdd(RSub(p2[1], RMul(dx, s)), RHalf(RMul(dy, s))),
                         RSub(RSub(p2[2], RMul(dy, s)), RHalf(RMul(dx, s)))>>
                 p4 == <<RSub(RSub(p2[1], RMul(dx, s)), RHalf(RMul(dy, s))),
                         RAdd(RSub(p2[2], RMul(dy, s)), RHalf(RMul(dx, s)))>>
                 p5 == <<RAdd(RSub(p1[1], RMul(dx, s)), RHalf(RMul(dy, s))),
                         RSub(RSub(p1[2], RMul(dy, s)), RHalf(RMul(dx, s)))>>
                 p6 == <<RSub(RSub(p1[1], RMul(dx, s)), RHalf(RMul(dy, s))),
                         RAdd(RSub(p1[2], RMul(dy, s)), RHalf(RMul(dx, s)))>>
                 end_head == IF arrow_end
                             THEN <<Draw("drawLine", pen, brush, <<p2, p3>>),
                                    Draw("drawLine", pen, brush, <<p2, p4>>)>>
                             ELSE <<>>
                 start_head == IF arrow_start
                               THEN <<Draw("drawLine", pen, brush, <<p1, p5>>),
                                      Draw("drawLine", pen, brush, <<p1, p6>>)>>
                               ELSE <<>>
             IN  shaft \o end_head \o start_head

\* the QPainter calls of arrow: the shaft, then the two strokes of each head
arrow_calls(t, sc, x1, y1, x2, y2, arrow_size, arrow_start, arrow_end) ==
    LET pen == DefaultPen
        brush == DefaultBrush
        p1 == map(t, RPoint(x1, y1))
        p2 == map(t, RPoint(x2, y2))
        dx0 == RSub(p2[1], p1[1])
        dy0 == RSub(p2[2], p1[2])
        length == RSqrt(RAdd(RMul(dx0, dx0), RMul(dy0, dy0)))
        shaft == <<Draw("drawLine", pen, brush, <<p1, p2>>)>>
    IN  IF length = R(0) THEN shaft
        ELSE LET dx == RDiv(dx0, length)
                 dy == RDiv(dy0, length)
                 s == RMul(R(arrow_size), RAbs(sc))
                 p3 == <<RAdd(RSub(p2[1], RMul(dx, s)), RHalf(RMul(dy, s))),
                         RSub(RSub(p2[2], RMul(dy, s)), RHalf(RMul(dx, s)))>>
                 p4 == <<RSub(RSub(p2[1], RMul(dx, s)), RHalf(RMul(dy, s))),
                         RAdd(RSub(p2[2], RMul(dy, s)), RHalf(RMul(dx, s)))>>
                 p5 == <<RAdd(RAdd(p1[1], RMul(dx, s)), RHalf(RMul(dy, s))),
                         RSub(RAdd(p1[2], RMul(dy, s)), RHalf(RMul(dx, s)))>>
                 p6 == <<RSub(RAdd(p1[1], RMul(dx, s)), RHalf(RMul(dy, s))),
                         RAdd(RAdd(p1[2], RMul(dy, s)), RHalf(RMul(dx, s)))>>
                 end_head == IF arrow_end
                             THEN <<Draw("drawLine", pen, brush, <<p2, p3>>),
                                    Draw("drawLine", pen, brush, <<p2, p4>>)>>
                             ELSE <<>>
                 start_head == IF arrow_start
                               THEN <<Draw("drawLine", pen, brush, <<p1, p5>>),
                                      Draw("drawLine", pen, brush, <<p1, p6>>)>>
                               ELSE <<>>
             IN  shaft \o end_head \o start_head

\* faulty variant of arrow: the test for a zero length is missing, the
\* normalisation divides by zero after the shaft is drawn
arrow_unguarded(x1, y1, x2, y2, arrow_size, arrow_start, arrow_end) ==
    IF transform # <<>> /\ map(transform, RPoint(x1, y1)) = map(transform, RPoint(x2, y2))
    THEN /\ pc = "painting"
         /\ Len(canvas) <= MaxPrims
         /\ err' = "ZeroDivisionError"
         /\ canvas' = Append(canvas,
                Drawn("arrow", <<Draw("drawLine", DefaultPen, DefaultBrush,
                                      <<map(transform, RPoint(x1, y1)),
                                        map(transform, RPoint(x2, y2))>>)>>))
         /\ last' = Call("arrow", <<x1, y1, x2, y2, arrow_size, arrow_start, arrow_end>>,
                         <<>>, <<>>)
         /\ UNCHANGED <<geomVars, styleVars, mouseVars, windowVars, update_pending, pc>>
    ELSE Paint("arrow", <<x1, y1, x2, y2, arrow_size, arrow_start, arrow_end>>,
               arrow_calls(transform, scale, x1, y1, x2, y2,
                           arrow_size, arrow_start, arrow_end))

arrow(x1, y1, x2, y2, arrow_size, arrow_start, arrow_end) ==
    Paint("arrow", <<x1, y1, x2, y2, arrow_size, arrow_start, arrow_end>>,
          arrow_calls(transform, scale, x1, y1, x2, y2,
                      arrow_size, arrow_start, arrow_end))

rect(x, y, w, h) ==
    LET pt == painter(style)
        p1 == map(transform, RPoint(x, y))
        p2 == map(transform, RPoint(x + w, y + h))
    IN  Paint("rect", <<x, y, w, h>>,
              <<Draw("drawRect", pt.pen, pt.brush, <<p1, p2>>)>>)

\* faulty variant of circle: the rectangle is screen_r wide and high, not
\* 2 * screen_r
circle_half(x, y, r) ==
    LET pt == painter(style)
        q == map(transform, RPoint(x, y))
        screen_r == RMul(R(r), RAbs(scale))
    IN  Paint("circle", <<x, y, r>>,
              <<Draw("drawEllipse", pt.pen, pt.brush,
                     <<<<RSub(q[1], screen_r), RSub(q[2], screen_r)>>,
                       <<screen_r, screen_r>>>>)>>)

\* drawEllipse(QRectF(left, top, width, height)): pts is <<(left, top), (width, height)>>
circle(x, y, r) ==
    LET pt == painter(style)
        q == map(transform, RPoint(x, y))
        screen_r == RMul(R(r), RAbs(scale))
    IN  Paint("circle", <<x, y, r>>,
              <<Draw("drawEllipse", pt.pen, pt.brush,
                     <<<<RSub(q[1], screen_r), RSub(q[2], screen_r)>>,
                       <<RMul(R(2), screen_r), RMul(R(2), screen_r)>>>>)>>)

\* faulty variant of triangle: the side opposite (x, y) lies at y + h
triangle_up(x, y, w, h) ==
    LET pt == painter(style)
        p1 == map(transform, RPoint(x, y))
        p2 == map(transform, <<RAdd(R(x), RHalf(R(w))), R(y + h)>>)
        p3 == map(transform, <<RSub(R(x), RHalf(R(w))), R(y + h)>>)
    IN  Paint("triangle", <<x, y, w, h>>,
              <<Draw("drawPolygon", pt.pen, pt.brush, <<p1, p2, p3>>)>>)

triangle(x, y, w, h) ==
    LET pt == painter(style)
        p1 == map(transform, RPoint(x, y))
        p2 == map(transform, <<RAdd(R(x), RHalf(R(w))), R(y - h)>>)
        p3 == map(transform, <<RSub(R(x), RHalf(R(w))), R(y - h)>>)
    IN  Paint("triangle", <<x, y, w, h>>,
              <<Draw("drawPolygon", pt.pen, pt.brush, <<p1, p2, p3>>)>>)

\* faulty variant of text_position: top alignment moves the anchor up
text_position_top_up(p, text_width, text_height, hor_align, vert_align) ==
    LET px == IF hor_align = "right" THEN RSub(p[1], R(text_width))
              ELSE IF hor_align = "center" THEN RSub(p[1], RHalf(R(text_width)))
              ELSE p[1]
        py == IF vert_align = "top" THEN RSub(p[2], R(text_height))
              ELSE IF vert_align = "middle" THEN RAdd(p[2], RHalf(R(text_height)))
              ELSE p[2]
    IN  <<px, py>>

\* the point text passes to drawText: the mapped anchor after the two
\* adjustments
text_position(p, text_width, text_height, hor_align, vert_align) ==
    LET px == IF hor_align = "right" THEN RSub(p[1], R(text_width))
              ELSE IF hor_align = "center" THEN RSub(p[1], RHalf(R(text_width)))
              ELSE p[1]
        py == IF vert_align = "top" THEN RAdd(p[2], R(text_height))
              ELSE IF vert_align = "middle" THEN RAdd(p[2], RHalf(R(text_height)))
              ELSE p[2]
    IN  <<px, py>>

\* text(x, y, text, font_size, hor_align, vert_align).  text_width and
\* text_height are what metrics.horizontalAdvance(text) and metrics.height()
\* return in this call, two integers that depend on the string and the font;
\* they are recorded with the arguments.
text(x, y, text_width, text_height, hor_align, vert_align) ==
    LET p == map(transform, RPoint(x, y))
    IN  Paint("text", <<x, y, text_width, text_height, hor_align, vert_align>>,
              <<Draw("drawText", style.text_pen, DefaultBrush,
                     <<text_position(p, text_width, text_height,
                                     hor_align, vert_align)>>)>>)

-----------------------------------------------------------------------------
(* SpecDraw: repaints of a widget constructed with a non-empty size, in    *)
(* which on_draw sets stroke and fill attributes and draws.                *)

NextDraw ==
    \/ paintEvent
    \/ on_draw_return
    \/ \E b \in BOOLEAN : set_stroke(b)
    \/ \E b \in BOOLEAN : set_fill(b)
    \/ set_stroke_color("red")
    \/ set_fill_color("red")
    \/ set_stroke_width(R(2))
    \/ line(0 - 10, 0, 10, 0)
    \/ \E b \in BOOLEAN : arrow(0 - 10, 0, 10, 0, 5, b, TRUE)
    \/ rect(0 - 5, 0 - 5, 10, 10)
    \/ circle(0, 0, 5)
    \/ triangle(0, 0, 10, 5)
    \/ polygon(<<<<0, 0>>, <<10, 0>>, <<0, 10>>>>)

SpecDraw == InitSized /\ [][NextDraw]_vars

-----------------------------------------------------------------------------
(* SpecFrame: repaints in which on_draw sets style attributes, saves them  *)
(* once and draws lines.  As in SpecStyle each attribute is set to one     *)
(* value other than its default.                                           *)

NextFrame ==
    \/ paintEvent
    \/ on_draw_return
    \/ /\ pc = "painting"
       /\ \/ set_stroke_color("red")
          \/ set_fill_color("red")
          \/ set_stroke_width(R(2))
          \/ set_text_color("red")
          \/ set_stroke(FALSE)
          \/ set_fill(FALSE)
          \/ shadow = <<>> /\ push_attributes
    \/ line(0 - 10, 0, 10, 0)

SpecFrame == InitSized /\ [][NextFrame]_vars

-----------------------------------------------------------------------------
(* SpecPersist: repaint after repaint, with an on_draw that saves and      *)
(* restores the style attributes and sets two of them, in any order and    *)
(* any number of times up to the bound on saves.                           *)

NextPersist ==
    \/ paintEvent
    \/ on_draw_return
    \/ /\ pc = "painting"
       /\ \/ push_attributes
          \/ pop_attributes
          \/ set_stroke_color("red")
          \/ \E c \in {"black", "red"} : set_text_color(c)

SpecPersist == InitSized /\ [][NextPersist]_vars

-----------------------------------------------------------------------------
(* SpecText: repaints in which on_draw draws text, in the viewport of the  *)
(* construction and in one of 400 x 400.  The strings measure 3 x 5 or     *)
(* 40 x 12 device units.                                                   *)

TextAnchors == {<<0, 0>>, <<1, 0 - 1>>}
TextSizes == {<<3, 5>>, <<40, 12>>}
HorAligns == {"left", "right", "center"}
VertAligns == {"top", "middle", "bottom"}

NextText ==
    \/ /\ pc = "idle"
       /\ \E w \in {MaxView, 400} : resizeEvent(w, w)
    \/ paintEvent
    \/ on_draw_return
    \/ set_text_color("red")
    \/ \E a \in TextAnchors, m \in TextSizes, hor \in HorAligns, vert \in VertAligns :
          text(a[1], a[2], m[1], m[2], hor, vert)

SpecText == InitSized /\ [][NextText]_vars

-----------------------------------------------------------------------------
(* SpecShape: repaints in which on_draw draws circles and triangles, in    *)
(* viewports as wide and as high as the construction's or 400, with the    *)
(* world bounds of the construction or a world rectangle of 20 x 10.       *)

ShapeAnchors == {<<0, 0>>, <<1, 0 - 1>>}
ShapeSizes == 1..MaxWorld

NextShape ==
    \/ /\ pc = "idle"
       /\ \E w \in {MaxView, 400}, h \in {MaxView, 400} : resizeEvent(w, h)
    \/ /\ pc = "idle"
       /\ \E h \in {10, 20} : set_world_bounds(0 - 10, 0 - (h \div 2), 20, h)
    \/ paintEvent
    \/ on_draw_return
    \/ \E a \in ShapeAnchors, r \in ShapeSizes : circle(a[1], a[2], r)
    \/ \E a \in ShapeAnchors, w \in ShapeSizes, h \in ShapeSizes :
          triangle(a[1], a[2], w, h)

SpecShape == InitSized /\ [][NextShape]_vars

-----------------------------------------------------------------------------
(* SpecArrow: repaints in which on_draw draws arrows, between resizes that *)
(* change the scale.  An arrow starts at one of two points and runs along  *)
(* one of the vectors below, the null vector among them; the others have a *)
(* length whose square root is a fraction at every scale.                  *)

ArrowStarts == {<<0, 0>>, <<5, 5>>}
ArrowVectors == {<<0, 0>>, <<10, 0>>, <<0, 0 - 10>>, <<3, 4>>, <<0 - 4, 3>>}
ArrowSizes == {0, 5}

NextArrow ==
    \/ /\ pc = "idle"
       /\ \E w \in ViewSizes \ {0} : resizeEvent(w, MaxView)
    \/ paintEvent
    \/ on_draw_return
    \/ \E p \in ArrowStarts, v \in ArrowVectors, size \in ArrowSizes :
       \E arrow_start \in BOOLEAN, arrow_end \in BOOLEAN :
          arrow(p[1], p[2], p[1] + v[1], p[2] + v[2], size, arrow_start, arrow_end)

SpecArrow == InitSized /\ [][NextArrow]_vars


-----------------------------------------------------------------------------
(* The statements about the style attributes and the attribute stack *)

\* the last entry of shadow: what the most recent push_attributes call that
\* no pop_attributes has undone yet found
Saved == shadow[Len(shadow)]

\* C1. Style round trip: push_attributes returns normally, and the
\* pop_attributes that follows it (after any setter calls) leaves the six
\* fields as that push_attributes found them and the stack as deep as it
\* found it.
C1_StyleRoundTrip ==
    [][ /\ last'.op = "push_attributes" => err' = Ok
        /\ (last'.op = "pop_attributes" /\ shadow # <<>>) =>
              /\ attributes(style') = Saved.state
              /\ Len(attribute_stack') = Saved.depth ]_vars

\* C1, the round trip alone (what pop_attributes leaves)
C1_RestoreAfterSave ==
    [][ (last'.op = "pop_attributes" /\ shadow # <<>>) =>
              /\ attributes(style') = Saved.state
              /\ Len(attribute_stack') = Saved.depth ]_vars

\* C2. Empty-stack restore: pop_attributes on an empty stack raises nothing
\* and leaves the six fields, the pens and brushes, the effective pen and
\* brush and the stack unchanged.
C2_EmptyStackRestore ==
    [][ (last'.op = "pop_attributes" /\ attribute_stack = <<>>) =>
           (err' = Ok /\ style' = style /\ attribute_stack' = <<>>) ]_vars

\* reached: pop_attributes was called on an empty stack with every style
\* field away from its default and stroke and fill switched off
C2_Witness ==
    /\ last.op = "pop_attributes"
    /\ attribute_stack = <<>>
    /\ shadow = <<>>
    /\ err = Ok
    /\ attributes(style) = <<"red", "red", Rat(5, 2), "red", FALSE, FALSE>>
    /\ style.current_pen = "no_stroke_pen"
    /\ style.current_brush = "no_fill_brush"

\* C3. LIFO order: the depth of the stack is the number of push_attributes
\* calls minus the number of pop_attributes calls that found it non-empty,
\* and each pop_attributes on a non-empty stack makes current the snapshot of
\* the most recent push_attributes not yet undone and removes that snapshot
\* only.
C3_StackIsLifo ==
    [][ /\ Len(attribute_stack') = Len(shadow')
        /\ (last'.op = "pop_attributes" /\ attribute_stack # <<>>) =>
              /\ attributes(style') = Saved.state
              /\ attribute_stack' = SubSeq(attribute_stack, 1, Len(attribute_stack) - 1) ]_vars

-----------------------------------------------------------------------------
(* The statements about the pen and brush of the drawing methods *)

StrokingMethods == {"line", "arrow", "rect", "circle", "triangle", "polygon"}
FilledMethods == {"rect", "circle", "triangle", "polygon"}

\* the pen is the current stroke: colour and width when stroking is enabled,
\* no stroke at all otherwise
StrokesWithStyle(pen) ==
    IF style.stroke
    THEN pen.style = "SolidLine" /\ pen.color = style.stroke_color
                                 /\ pen.width = style.stroke_width
    ELSE pen.style = "NoPen"

\* the brush is the current fill: the fill colour when filling is enabled, no
\* fill otherwise
FillsWithStyle(brush) ==
    IF style.fill
    THEN brush.style = "SolidPattern" /\ brush.color = style.fill_color
    ELSE brush.style = "NoBrush"

\* the painter calls of the drawing method that ran last
LastCalls == canvas[Len(canvas)].calls

\* C4. Every stroking method draws with the style current at its call: stroke
\* colour and width when strokeEnabled, no stroke otherwise; rect, circle,
\* triangle and polygon fill with the fill colour only when fillEnabled.
C4_DrawsWithCurrentStyle ==
    (last.op \in StrokingMethods /\ err = Ok) =>
        \A i \in 1..Len(LastCalls) :
            /\ StrokesWithStyle(LastCalls[i].pen)
            /\ last.op \in FilledMethods => FillsWithStyle(LastCalls[i].brush)

\* C4 for the methods that take their painter from painter()
C4_ExceptArrow ==
    (last.op \in StrokingMethods \ {"arrow"} /\ err = Ok) =>
        \A i \in 1..Len(LastCalls) :
            /\ StrokesWithStyle(LastCalls[i].pen)
            /\ last.op \in FilledMethods => FillsWithStyle(LastCalls[i].brush)

-----------------------------------------------------------------------------
(* The statements about the repaint *)

\* the entry is a fill of the whole surface, (0, 0) to (width, height), with
\* the background colour
ClearsSurface(e, w, h) ==
    /\ e.by = "paintEvent"
    /\ Len(e.calls) = 1
    /\ e.calls[1].op = "fillRect"
    /\ e.calls[1].brush.style = "SolidPattern"
    /\ e.calls[1].brush.color = "white"
    /\ e.calls[1].pts = <<RPoint(0, 0), RPoint(w, h)>>

\* C11. Render delegate: on_draw runs once per paintEvent, it is entered by
\* paintEvent only and with nothing on the surface but the clear of the whole
\* widget to the background colour; whatever on_draw draws comes after that
\* clear, which is issued once per repaint.
C11_DrawAfterClear ==
    [][ /\ (pc = "idle" /\ pc' = "painting") =>
              /\ last'.op = "paintEvent"
              /\ Len(canvas') = 1
              /\ ClearsSurface(canvas'[1], vw', vh')
        /\ (last'.op = "paintEvent" /\ last.op # "paintEvent") =>
              (pc = "idle" /\ pc' = "painting")
        /\ (pc = "painting" /\ pc' = "painting") =>
              /\ Len(canvas') >= 1
              /\ canvas'[1] = canvas[1]
              /\ \A i \in 2..Len(canvas') : canvas'[i].by # "paintEvent"
        /\ (pc = "painting" /\ pc' = "idle") => last'.op = "on_draw" ]_vars

\* reached: on_draw has drawn a shape after the clear of this repaint, which
\* is not the first repaint
C11_Witness ==
    /\ pc = "painting"
    /\ Len(canvas) = 2
    /\ ClearsSurface(canvas[1], vw, vh)
    /\ canvas[2].by = "rect"
    /\ last.op = "rect"
    /\ style.stroke_color = "red"

-----------------------------------------------------------------------------
(* Pointer events: mouseMoveEvent, mousePressEvent, mouseReleaseEvent.     *)
(* Each stores window_to_world of the event position and then calls its    *)
(* hook with the coordinates of the stored point.  The hooks of DrawView   *)
(* do nothing; super().mouse...Event(event) is QWidget's, which only marks *)
(* the event as ignored.                                                   *)

\* a call of a hook: its name, its arguments and self.current_mouse_pos as it
\* is when the hook is entered
Hook(hook, x, y, stored) == [hook |-> hook, x |-> x, y |-> y, stored |-> stored]

\* the body the three handlers share, for the handler and the hook named
MouseEvent(handler, hook, d) ==
    /\ pc = "idle"
    /\ IF transform = <<>>
       THEN \* window_to_world raises: nothing is stored, the hook is not called
            /\ err' = "AttributeError"
            /\ current_mouse_pos' = current_mouse_pos
            /\ hooked' = <<>>
       ELSE LET p == window_to_world_value(transform, d)
            IN  /\ err' = Ok
                /\ current_mouse_pos' = p
                /\ hooked' = <<Hook(hook, p[1], p[2], p)>>
    /\ last' = Call(handler, d, <<>>, <<>>)
    /\ UNCHANGED <<geomVars, styleVars, windowVars, update_pending, pc, canvas>>

mouseMoveEvent(d) == MouseEvent("mouseMoveEvent", "on_mouse_move", d)

\* faulty variant of mousePressEvent: the hook is called with the new
\* coordinates before the position is stored
mousePressEvent_late(d) ==
    /\ pc = "idle"
    /\ IF transform = <<>>
       THEN /\ err' = "AttributeError"
            /\ current_mouse_pos' = current_mouse_pos
            /\ hooked' = <<>>
       ELSE LET p == window_to_world_value(transform, d)
            IN  /\ err' = Ok
                /\ current_mouse_pos' = p
                /\ hooked' = <<Hook("on_mouse_press", p[1], p[2], current_mouse_pos)>>
    /\ last' = Call("mousePressEvent", d, <<>>, <<>>)
    /\ UNCHANGED <<geomVars, styleVars, windowVars, update_pending, pc, canvas>>

mousePressEvent(d) == MouseEvent("mousePressEvent", "on_mouse_press", d)

mouseReleaseEvent(d) == MouseEvent("mouseReleaseEvent", "on_mouse_release", d)

-----------------------------------------------------------------------------
(* SpecMouse: pointer events, at points of the diagonal of the largest     *)
(* viewport, between resizes and changes of world bounds that vary the     *)
(* widths, so that either ratio can be the smaller one.                    *)

MousePoints == {RPoint(x, x) : x \in ViewSizes}

NextMouse ==
    \/ \E w \in ViewSizes \ {0} : resizeEvent(w, MaxView)
    \/ \E x \in WorldOrigins, w \in WorldSizes \ {0} :
          set_world_bounds(x, x, w, MaxWorld)
    \/ \E d \in MousePoints : mouseMoveEvent(d)
    \/ \E d \in MousePoints : mousePressEvent(d)
    \/ \E d \in MousePoints : mouseReleaseEvent(d)

SpecMouse == Init /\ [][NextMouse]_vars

\* the hook that belongs to each handler
HookOf ==
    [mouseMoveEvent |-> "on_mouse_move",
     mousePressEvent |-> "on_mouse_press",
     mouseReleaseEvent |-> "on_mouse_release"]

MouseHandlers == {"mouseMoveEvent", "mousePressEvent", "mouseReleaseEvent"}

\* toWorld of the specification: the point that ToDevice(s, .) sends to d
ToWorld(s, d) ==
    <<RAdd(WorldCenterX, RDiv(RSub(d[1], Rat(vw, 2)), s)),
      RSub(WorldCenterY, RDiv(RSub(d[2], Rat(vh, 2)), s))>>

\* C12. Pointer mapping: a pointer event at device position d, handled while
\* a transform is current, stores the world point that the transform sends
\* to d (for a non-empty viewport and world rectangle, the point the toWorld
\* formula gives), calls the hook of its kind and no other, once, with the
\* coordinates of that point and after storing it, and changes neither the
\* viewport, the world bounds, the transform, the scale, the style nor the
\* attribute stack.
C12_PointerMapping ==
    [][ (last'.op \in MouseHandlers /\ transform # <<>>) =>
           /\ err' = Ok
           /\ world_to_window_value(transform, current_mouse_pos') = last'.arg
           /\ Positive => current_mouse_pos' = ToWorld(MinRatio, last'.arg)
           /\ Len(hooked') = 1
           /\ hooked'[1].hook = HookOf[last'.op]
           /\ <<hooked'[1].x, hooked'[1].y>> = current_mouse_pos'
           /\ hooked'[1].stored = current_mouse_pos'
           /\ UNCHANGED <<vw, vh, world_bounds, transform, scale, style,
                          attribute_stack>> ]_vars

\* reached: a press at a device point other than the stored position's, under
\* world bounds and a scale set after construction, replaced the position
\* stored by an earlier event
C12_Witness ==
    /\ last.op = "mousePressEvent"
    /\ err = Ok
    /\ Positive
    /\ resized
    /\ world_bounds # InitWorldBounds
    /\ scale # R(1)
    /\ hooked = <<Hook("on_mouse_press", current_mouse_pos[1], current_mouse_pos[2],
                       current_mouse_pos)>>
    /\ current_mouse_pos # last.arg
    /\ last.arg # RPoint(0, 0)

-----------------------------------------------------------------------------
(* The statements about arrows *)

\* the device points of the two ends of the arrow drawn last
ArrowP1 == world_to_window_value(transform, RPoint(last.arg[1], last.arg[2]))
ArrowP2 == world_to_window_value(transform, RPoint(last.arg[3], last.arg[4]))

\* C13. Degenerate arrow: an arrow whose two ends map to the same device
\* point raises nothing and issues exactly one painter call, the drawLine of
\* the shaft, whatever the head size and the two flags.
C13_DegenerateArrow ==
    (last.op = "arrow" /\ transform # <<>> /\ ArrowP1 = ArrowP2) =>
        /\ err = Ok
        /\ canvas[Len(canvas)].by = "arrow"
        /\ Len(LastCalls) = 1
        /\ LastCalls[1].op = "drawLine"
        /\ LastCalls[1].pts = <<ArrowP1, ArrowP2>>

\* reached: arrow(5, 5, 5, 5) with a head size of 5 and both heads requested
C13_Witness ==
    /\ last.op = "arrow"
    /\ last.arg = <<5, 5, 5, 5, 5, TRUE, TRUE>>
    /\ err = Ok
    /\ resized
    /\ Len(canvas) = 2

\* vectors of fractions
VAdd(u, v) == <<RAdd(u[1], v[1]), RAdd(u[2], v[2])>>
VSub(u, v) == <<RSub(u[1], v[1]), RSub(u[2], v[2])>>
VScale(k, u) == <<RMul(k, u[1]), RMul(k, u[2])>>
VLength(u) == RSqrt(RAdd(RMul(u[1], u[1]), RMul(u[2], u[2])))

\* d = (p2 - p1)/|p2 - p1|, n = (d.y, -d.x), s = headSize * |scale|
ArrowD == VScale(RDiv(R(1), VLength(VSub(ArrowP2, ArrowP1))), VSub(ArrowP2, ArrowP1))
ArrowN == <<ArrowD[2], RNeg(ArrowD[1])>>
ArrowS == RMul(R(last.arg[5]), RAbs(scale))

\* the tip of a head stroke: back by s along e from the end q, and k*(s/2)
\* along n
HeadTip(q, e, k) ==
    VAdd(VAdd(q, VScale(ArrowS, e)), VScale(RMul(R(k), RHalf(ArrowS)), ArrowN))

EndHead ==
    IF last.arg[7]
    THEN {<<ArrowP2, HeadTip(ArrowP2, VScale(R(0 - 1), ArrowD), 1)>>,
          <<ArrowP2, HeadTip(ArrowP2, VScale(R(0 - 1), ArrowD), 0 - 1)>>}
    ELSE {}

StartHead ==
    IF last.arg[6]
    THEN {<<ArrowP1, HeadTip(ArrowP1, ArrowD, 1)>>,
          <<ArrowP1, HeadTip(ArrowP1, ArrowD, 0 - 1)>>}
    ELSE {}

HeadCount(flag) == IF flag THEN 2 ELSE 0

\* C18. Arrowhead construction: an arrow whose mapped ends p1, p2 differ
\* draws 1 + 2*[end head] + 2*[start head] line segments and nothing else:
\* the shaft p1-p2, for a requested end head the segments from p2 to
\* p2 - s*d + (s/2)*n and to p2 - s*d - (s/2)*n, for a requested start head
\* the segments from p1 to p1 + s*d + (s/2)*n and to p1 + s*d - (s/2)*n.
C18_ArrowheadConstruction ==
    (last.op = "arrow" /\ err = Ok /\ ArrowP1 # ArrowP2) =>
        /\ canvas[Len(canvas)].by = "arrow"
        /\ Len(LastCalls) = 1 + HeadCount(last.arg[7]) + HeadCount(last.arg[6])
        /\ \A i \in 1..Len(LastCalls) : LastCalls[i].op = "drawLine"
        /\ LastCalls[1].pts = <<ArrowP1, ArrowP2>>
        /\ {LastCalls[i].pts : i \in 2..Len(LastCalls)} = EndHead \cup StartHead

\* reached: an arrow along a direction that is not parallel to an axis, with
\* a head at its start only, drawn at a scale set by a resize
C18_Witness ==
    /\ last.op = "arrow"
    /\ err = Ok
    /\ resized
    /\ scale # Rat(1, 10)
    /\ last.arg = <<5, 5, 8, 9, 5, TRUE, FALSE>>
    /\ Len(LastCalls) = 3
    /\ ArrowD = <<Rat(3, 5), Rat(0 - 4, 5)>>

-----------------------------------------------------------------------------
(* The statement about text *)

\* the horizontal and the vertical shift for an alignment and a measured size
HorShift(hor_align, width) ==
    CASE hor_align = "right" -> RNeg(R(width))
      [] hor_align = "center" -> RNeg(Rat(width, 2))
      [] hor_align = "left" -> R(0)

VertShift(vert_align, height) ==
    CASE vert_align = "top" -> R(height)
      [] vert_align = "middle" -> Rat(height, 2)
      [] vert_align = "bottom" -> R(0)

\* the device point of the anchor of the text drawn last
TextAnchor == ToDevice(MinRatio, RPoint(last.arg[1], last.arg[2]))

\* C14. Text alignment: text draws the string once, at toDevice(x, y) moved
\* horizontally by -width (right), -width/2 (center) or 0 (left) and
\* vertically by +height (top), +height/2 (middle) or 0 (bottom), each shift
\* depending on its own alignment only; an anchor at device (200, 200) with
\* width 40, height 12, center and middle gives (180, 206).
C14_TextAlignment ==
    (last.op = "text" /\ err = Ok /\ Positive) =>
        /\ canvas[Len(canvas)].by = "text"
        /\ Len(LastCalls) = 1
        /\ LastCalls[1].op = "drawText"
        /\ LastCalls[1].pts =
              <<<<RAdd(TextAnchor[1], HorShift(last.arg[5], last.arg[3])),
                  RAdd(TextAnchor[2], VertShift(last.arg[6], last.arg[4]))>>>>
        /\ (/\ TextAnchor = RPoint(200, 200)
            /\ <<last.arg[3], last.arg[4], last.arg[5], last.arg[6]>>
                  = <<40, 12, "center", "middle">>)
           => LastCalls[1].pts = <<RPoint(180, 206)>>

\* reached: right/top aligned text of odd width and height, anchored away
\* from the centre of a 400 x 400 viewport
C14_Witness ==
    /\ last.op = "text" /\ err = Ok
    /\ vw = 400 /\ vh = 400
    /\ last.arg = <<1, 0 - 1, 3, 5, "right", "top">>
    /\ LastCalls[1].pts = <<RPoint(217, 225)>>

-----------------------------------------------------------------------------
(* The statements about circles and triangles *)

\* the ellipse drawn last: its centre and its two radii, from the rectangle
\* (left, top, width, height) given to drawEllipse
EllipseCenter ==
    <<RAdd(LastCalls[1].pts[1][1], RHalf(LastCalls[1].pts[2][1])),
      RAdd(LastCalls[1].pts[1][2], RHalf(LastCalls[1].pts[2][2]))>>
EllipseRadii == <<RHalf(LastCalls[1].pts[2][1]), RHalf(LastCalls[1].pts[2][2])>>

\* C15. Circle radius: circle(x, y, r) draws one ellipse centred at
\* toDevice(x, y) whose radius is r * |scale| on both axes, scale being the
\* smaller viewport/world ratio; with a world rectangle of 20 x 10 in a
\* 400 x 400 viewport the scale is 20 and a circle of radius 1 has device
\* radius 20.
C15_CircleRadius ==
    (last.op = "circle" /\ err = Ok /\ Positive) =>
        /\ canvas[Len(canvas)].by = "circle"
        /\ Len(LastCalls) = 1
        /\ LastCalls[1].op = "drawEllipse"
        /\ EllipseCenter = ToDevice(MinRatio, RPoint(last.arg[1], last.arg[2]))
        /\ EllipseRadii = <<RMul(R(last.arg[3]), RAbs(MinRatio)),
                            RMul(R(last.arg[3]), RAbs(MinRatio))>>
        /\ (world_bounds.w = 20 /\ world_bounds.h = 10 /\ vw = 400 /\ vh = 400) =>
              /\ scale = R(20)
              /\ last.arg[3] = 1 => EllipseRadii = <<R(20), R(20)>>

\* reached: a circle of world radius 1 drawn off-centre in a 400 x 400
\* viewport showing a world rectangle of 20 x 10
C15_Witness ==
    /\ last.op = "circle" /\ err = Ok
    /\ world_bounds.w = 20 /\ world_bounds.h = 10 /\ vw = 400 /\ vh = 400
    /\ last.arg = <<1, 0 - 1, 1>>
    /\ EllipseRadii = <<R(20), R(20)>>
    /\ EllipseCenter = RPoint(220, 220)

\* the device point of a world point given by fractions
ToDeviceR(x, y) == ToDevice(MinRatio, <<x, y>>)

\* C16, as claimed. Triangle geometry: triangle(x, y, w, h) draws the polygon
\* with the base corners (x - w/2, y) and (x + w/2, y) and the apex
\* (x, y - h), each mapped through toDevice.
C16_TriangleAsClaimed ==
    (last.op = "triangle" /\ err = Ok /\ Positive) =>
        /\ Len(LastCalls) = 1
        /\ LastCalls[1].op = "drawPolygon"
        /\ {LastCalls[1].pts[i] : i \in 1..Len(LastCalls[1].pts)} =
              {ToDeviceR(RSub(R(last.arg[1]), Rat(last.arg[3], 2)), R(last.arg[2])),
               ToDeviceR(RAdd(R(last.arg[1]), Rat(last.arg[3], 2)), R(last.arg[2])),
               ToDeviceR(R(last.arg[1]), R(last.arg[2] - last.arg[4]))}

\* C16, amended. triangle(x, y, w, h) draws the polygon with the vertices
\* (x, y), (x + w/2, y - h) and (x - w/2, y - h), each mapped through
\* toDevice: (x, y) is the apex, and the opposite side, of length w, is
\* centred at (x, y - h).
C16_TriangleGeometry ==
    (last.op = "triangle" /\ err = Ok /\ Positive) =>
        /\ canvas[Len(canvas)].by = "triangle"
        /\ Len(LastCalls) = 1
        /\ LastCalls[1].op = "drawPolygon"
        /\ LastCalls[1].pts =
              <<ToDeviceR(R(last.arg[1]), R(last.arg[2])),
                ToDeviceR(RAdd(R(last.arg[1]), Rat(last.arg[3], 2)),
                          R(last.arg[2] - last.arg[4])),
                ToDeviceR(RSub(R(last.arg[1]), Rat(last.arg[3], 2)),
                          R(last.arg[2] - last.arg[4]))>>

\* reached: a triangle of odd width drawn off-centre in a 400 x 400 viewport
\* showing a world rectangle of 20 x 10; its three device vertices differ
C16_Witness ==
    /\ last.op = "triangle" /\ err = Ok
    /\ world_bounds.h = 10 /\ vw = 400
    /\ last.arg = <<1, 0 - 1, 1, 2>>
    /\ LastCalls[1].pts = <<RPoint(220, 220), RPoint(230, 260), RPoint(210, 260)>>

-----------------------------------------------------------------------------
(* The statement about the style setters *)

\* the six style fields as their getters return them, and the place of the
\* field each setter is for
Fields(s) ==
    <<s.stroke_color, s.fill_color, s.stroke_width, s.font_color, s.stroke, s.fill>>

FieldOf ==
    [stroke_color |-> 1, fill_color |-> 2, stroke_width |-> 3,
     text_color |-> 4, stroke |-> 5, fill |-> 6]

Setters == {"stroke_color", "fill_color", "stroke_width", "text_color", "stroke", "fill"}

\* C17. Style-setter frame: a setter gives its field the value passed and
\* leaves the other five fields, the attribute stack (every snapshot and its
\* place) and everything drawn so far in the repaint as they were.
C17_SetterFrame ==
    [][ last'.op \in Setters =>
           /\ err' = Ok
           /\ Fields(style')[FieldOf[last'.op]] = last'.arg[1]
           /\ \A j \in 1..6 :
                 j # FieldOf[last'.op] => Fields(style')[j] = Fields(style)[j]
           /\ attribute_stack' = attribute_stack
           /\ canvas' = canvas ]_vars

\* reached: the fill colour was set during a repaint, after a save that holds
\* the earlier fill colour and after a line was drawn
C17_Witness ==
    /\ last.op = "fill_color"
    /\ pc = "painting"
    /\ Len(canvas) = 2
    /\ canvas[2].by = "line"
    /\ Len(attribute_stack) = 1
    /\ attribute_stack[1][2] = "white"
    /\ attribute_stack[1][1] = "red"
    /\ style.fill_color = "red"

-----------------------------------------------------------------------------
(* The statement about the repaint after a change of geometry *)

\* for a non-empty viewport and world rectangle, the transform is the one of
\* the current viewport size and world bounds
TransformCurrent ==
    Positive =>
        /\ transform # <<>>
        /\ \A p \in Points : world_to_window_value(transform, p) = ToDevice(MinRatio, p)

\* C19. Repaint after a geometry change: every resizeEvent and every
\* set_world_bounds has, when it returns, recomputed the transform for the
\* new viewport and world bounds and requested a repaint; and every requested
\* repaint is followed by a paintEvent that runs on_draw with the transform
\* of the viewport and world bounds current at that time.
C19_RepaintRequested ==
    /\ [](last.op \in {"resizeEvent", "set_world_bounds"} =>
             /\ err = Ok
             /\ update_pending
             /\ TransformCurrent)
    /\ (update_pending ~> (pc = "painting" /\ ~update_pending /\ TransformCurrent))

\* reached: a repaint runs after a resize and a change of world bounds, with
\* no repaint request left
C19_Witness ==
    /\ pc = "painting"
    /\ last.op = "paintEvent"
    /\ ~update_pending
    /\ resized
    /\ Positive
    /\ world_bounds # InitWorldBounds
    /\ vw # vh

-----------------------------------------------------------------------------
(* The statement about the style after construction *)

\* stroke colour black, fill colour white, stroke width 1.0, text colour
\* black, stroke enabled, fill enabled
DefaultFields == <<"black", "white", R(1), "black", TRUE, TRUE>>

\* C20. Initial style state: right after construction the six fields read
\* as their defaults, and a push_attributes issued as the first style
\* operation returns normally and leaves exactly one snapshot, holding those
\* six values.
C20_InitialStyleReadable ==
    /\ [](last.op = "__init__" => Fields(style) = DefaultFields)
    /\ [][ (last.op = "__init__" /\ last'.op = "push_attributes") =>
              /\ err' = Ok
              /\ attribute_stack' = <<DefaultFields>> ]_vars

-----------------------------------------------------------------------------
(* The statement about the effective pen and brush *)

\* C21. Effective pen and brush: in every state after construction, whatever
\* setters, push_attributes and pop_attributes were called, the current pen
\* is the stroke pen exactly when stroke is enabled and the no-stroke pen
\* otherwise, the current brush is the fill brush exactly when fill is
\* enabled and the no-fill brush otherwise, the stroke pen has the current
\* stroke colour and stroke width, and the fill brush has the current fill
\* colour.
C21_EffectivePenBrush ==
    /\ current_pen(style) = IF style.stroke THEN style.stroke_pen ELSE no_stroke_pen
    /\ style.current_pen = "stroke_pen" <=> style.stroke
    /\ current_brush(style) = IF style.fill THEN style.fill_brush ELSE no_fill_brush
    /\ style.current_brush = "fill_brush" <=> style.fill
    /\ style.stroke_pen.color = style.stroke_color
    /\ style.stroke_pen.width = style.stroke_width
    /\ style.fill_brush.color = style.fill_color

\* C21 without the width of the stroke pen
C21_ExceptWidth ==
    /\ current_pen(style) = IF style.stroke THEN style.stroke_pen ELSE no_stroke_pen
    /\ style.current_pen = "stroke_pen" <=> style.stroke
    /\ current_brush(style) = IF style.fill THEN style.fill_brush ELSE no_fill_brush
    /\ style.current_brush = "fill_brush" <=> style.fill
    /\ style.stroke_pen.color = style.stroke_color
    /\ style.fill_brush.color = style.fill_color

-----------------------------------------------------------------------------
(* The statement about the existence of the transform *)

\* C22. A transform always exists: in every state after construction, also
\* when the widget had a width or height of zero at construction and has not
\* been resized to a non-empty size since, self.transform and self.scale are
\* defined, and no pointer event, mapping call or drawing method fails for
\* the lack of them.
C22_TransformAlwaysExists ==
    /\ transform # <<>>
    /\ scale # <<>>
    /\ err # "AttributeError"

-----------------------------------------------------------------------------
(* BeamWindow: the menu actions New, Open, Save and Save as.  The file     *)
(* dialog is modal; the name it returns is the input of the action, ""     *)
(* when the user cancels it.  The model, the view and the controls are     *)
(* seen through the calls made on them.                                    *)

FileNames == {"a.json", "b.json", "c.json"}
DialogResults == FileNames \cup {""}

ModelCall(op, arg) == [op |-> op, arg |-> arg]

\* new_model, as called by on_new
new_model ==
    <<ModelCall("beam_model.new", <<>>),
      ModelCall("update_controls", <<>>),
      ModelCall("update_combo", <<>>),
      ModelCall("segment_combo.setCurrentIndex", 0),
      ModelCall("beam_view.on_model_updated", <<>>)>>

on_new ==
    /\ pc = "idle"
    /\ window_calls' = new_model \o <<ModelCall("update_controls", <<>>)>>
    /\ dialog' = NoDialog
    /\ last' = Call("on_new", <<>>, <<>>, "menu")
    /\ err' = Ok
    /\ UNCHANGED <<filename, saved, chosen>>
    /\ UNCHANGED <<geomVars, styleVars, mouseVars, update_pending, pc, canvas>>

\* getOpenFileName returns name: it is assigned to self.filename at once, and
\* the model is loaded and solved when it is not empty
on_open(name) ==
    /\ pc = "idle"
    /\ filename' = name
    /\ dialog' = name
    /\ chosen' = IF name # "" THEN name ELSE chosen
    /\ window_calls' = IF name # ""
                THEN <<ModelCall("beam_model.new", <<>>),
                       ModelCall("beam_model.open_from_json", name),
                       ModelCall("beam_model.solve", <<>>),
                       ModelCall("beam_view.on_model_updated", <<>>),
                       ModelCall("update_controls", <<>>)>>
                ELSE <<>>
    /\ last' = Call("on_open", <<>>, <<>>, "menu")
    /\ err' = Ok
    /\ UNCHANGED saved
    /\ UNCHANGED <<geomVars, styleVars, mouseVars, update_pending, pc, canvas>>

\* the dialog is shown only while self.filename is empty; name is what it
\* returns then
on_save(name) ==
    LET asked == filename = ""
        f == IF asked THEN name ELSE filename
    IN  /\ pc = "idle"
        /\ filename' = f
        /\ dialog' = IF asked THEN name ELSE NoDialog
        /\ chosen' = IF asked /\ name # "" THEN name ELSE chosen
        /\ window_calls' = IF f # ""
                    THEN <<ModelCall("beam_model.save_as_json", f)>>
                    ELSE <<>>
        /\ saved' = IF f # "" THEN saved \cup {f} ELSE saved
        /\ last' = Call("on_save", <<>>, <<>>, "menu")
        /\ err' = Ok
        /\ UNCHANGED <<geomVars, styleVars, mouseVars, update_pending, pc,
                       canvas>>

\* getSaveFileName returns name into temp_filename
on_save_as(name) ==
    /\ pc = "idle"
    /\ dialog' = name
    /\ chosen' = IF name # "" THEN name ELSE chosen
    /\ IF name # ""
       THEN /\ filename' = name
            /\ window_calls' = <<ModelCall("beam_model.save_as_json", name)>>
            /\ saved' = saved \cup {name}
       ELSE /\ window_calls' = <<>>
            /\ UNCHANGED <<filename, saved>>
    /\ last' = Call("on_save_as", <<>>, <<>>, "menu")
    /\ err' = Ok
    /\ UNCHANGED <<geomVars, styleVars, mouseVars, update_pending, pc, canvas>>

NextWindow ==
    \/ on_new
    \/ \E name \in DialogResults : on_open(name)
    \/ \E name \in DialogResults : on_save(name)
    \/ \E name \in DialogResults : on_save_as(name)

SpecWindow == InitSized /\ [][NextWindow]_vars

-----------------------------------------------------------------------------
(* The statement about the style across repaints *)

\* C23. Style persists across repaints: paintEvent, from its start to the
\* call of on_draw and from the return of on_draw to its own, leaves the
\* style and the attribute stack as they are, so a repaint starts with what
\* the repaint before it left; and the depth of the stack is at all times
\* the number of push_attributes calls minus the number of pop_attributes
\* calls that found it non-empty, counted over all repaints (an on_draw with
\* m more saves than effective restores deepens it by m in each repaint).
C23_StylePersists ==
    [][ /\ last'.op \in {"paintEvent", "on_draw"} =>
              (style' = style /\ attribute_stack' = attribute_stack)
        /\ Len(attribute_stack') = Len(shadow') ]_vars

\* C23, the part about paintEvent alone
C23_PaintEventFrame ==
    [][ last'.op \in {"paintEvent", "on_draw"} =>
           (style' = style /\ attribute_stack' = attribute_stack) ]_vars

-----------------------------------------------------------------------------
(* The statement about the file dialogs of BeamWindow *)

FileActions == {"on_open", "on_save", "on_save_as"}

\* C24. Cancelled file dialogs are side-effect free: when the file dialog of
\* on_open, on_save or on_save_as returns an empty name, self.filename keeps
\* the value it had before the action and the action makes no call on the
\* model (no load, no solve, no save); consequently an on_save that comes
\* after a file was chosen writes to the file chosen last, without a dialog.
C24_CancelIsNoOp ==
    [][ /\ (last'.op \in FileActions /\ dialog' = "") =>
              /\ filename' = filename
              /\ window_calls' = <<>>
              /\ saved' = saved
        /\ (last'.op = "on_save" /\ chosen # "") =>
              /\ dialog' = NoDialog
              /\ window_calls' = <<ModelCall("beam_model.save_as_json", chosen)>>
              /\ chosen \in saved' ]_vars

\* C24 for the two save actions
C24_CancelledSave ==
    [][ (last'.op \in {"on_save", "on_save_as"} /\ dialog' = "") =>
           /\ filename' = filename
           /\ window_calls' = <<>>
           /\ saved' = saved ]_vars

=============================================================================
